---- MODULE Spec2Model ----
(***************************************************************************)
(* A model of odpgenerator.py: the span wrapper (wrap_spans), the partial  *)
(* tree with its ordering-preserving concatenation (ODFPartialTree), the   *)
(* renderer rules (ODFRenderer) and the main script that places the        *)
(* rendered nodes into the template and saves it.                          *)
(*                                                                         *)
(* Output nodes are objects with identity: the heap is a sequence of node  *)
(* records and a node is named by its index.  A partial tree holds a       *)
(* Python list of node references, so two trees may share a node.          *)
(***************************************************************************)
EXTENDS Integers, Sequences, FiniteSets, TLC

VARIABLES heap, stack, held, err, last, chain, pc, input, next, doc, page, anchor, index, saved, code

vars == <<heap, stack, held, err, last, chain, pc, input, next, doc, page, anchor, index, saved, code>>

\* ------------------------------------------------------------------ bounds
MaxNodes == 6
MaxLen == 4
MaxCodeLen == 5
MaxTokens == 3
MaxSlides == 2
MaxAnchor == 3
MaxDepth == 3
MaxFragmentDepth == 2

\* ------------------------------------------------------------- the nodes
\* A node of the output document.  kids: the child elements in order (for a
\* TextFrame: the children of its draw:text-box, the frame's inner container);
\* style: the text/paragraph style name; pclass: a frame's presentation class;
\* text: the node's own text, a sequence of characters.
Node(kind, style, pclass, text) ==
    [kind |-> kind, kids |-> <<>>, style |-> style, pclass |-> pclass, text |-> text]

\* The index the next created node gets.
NewId(h) == Len(h) + 1

\* element.append(child): lxml moves the child, so it leaves any parent it
\* had before it becomes the last child of p.
AppendChild(h, p, c) ==
    [i \in DOMAIN h |->
        IF i = p
        THEN [h[i] EXCEPT !.kids = Append(SelectSeq(@, LAMBDA k : k # c), c)]
        ELSE [h[i] EXCEPT !.kids = SelectSeq(@, LAMBDA k : k # c)]]

\* for elem in elems: p.append(elem)
RECURSIVE AppendAll(_, _, _)
AppendAll(h, p, elems) ==
    IF elems = <<>> THEN h
    ELSE AppendAll(AppendChild(h, p, Head(elems)), p, Tail(elems))

\* The nodes below n in document order (the XPath axis descendant::).
RECURSIVE Descendants(_, _)
RECURSIVE DescendantsOfAll(_, _)
Descendants(h, n) == DescendantsOfAll(h, h[n].kids)
DescendantsOfAll(h, ns) ==
    IF ns = <<>> THEN <<>>
    ELSE <<Head(ns)>> \o Descendants(h, Head(ns)) \o DescendantsOfAll(h, Tail(ns))

Range(s) == {s[i] : i \in DOMAIN s}

\* Every node a list of references leads to: the nodes and their descendants.
Reach(h, ns) == Range(ns) \cup Range(DescendantsOfAll(h, ns))

\* ------------------------------------------------------------ wrap_spans
\* The loop of wrap_spans from element i on; para = 0 stands for None.
RECURSIVE WrapLoop(_, _, _, _, _)
WrapLoop(h, elems, i, para, res) ==
    IF i > Len(elems)
    THEN [heap |-> h, res |-> IF para # 0 THEN Append(res, para) ELSE res]
    ELSE LET elem == elems[i] IN
         IF h[elem].kind = "Span"
         THEN LET h1 == IF para = 0
                        THEN Append(h, Node("Paragraph", "", "", <<>>))
                        ELSE h
                  p  == IF para = 0 THEN NewId(h) ELSE para
              IN  WrapLoop(AppendChild(h1, p, elem), elems, i + 1, p, res)
         ELSE WrapLoop(h, elems, i + 1, 0,
                       Append(IF para # 0 THEN Append(res, para) ELSE res, elem))

\* A wrap_spans that loses the paragraph still open when the input ends.
WrapDropsLastRun(h, elems) ==
    LET w == WrapLoop(h, elems, 1, 0, <<>>)
    IN  IF elems # <<>> /\ h[elems[Len(elems)]].kind = "Span"
        THEN [heap |-> w.heap, res |-> SubSeq(w.res, 1, Len(w.res) - 1)]
        ELSE w

\* wrap_spans(odf_elements): the new heap and the returned list.
wrap_spans(h, elems) == WrapLoop(h, elems, 1, 0, <<>>)

\* ------------------------------------------------------- ODFPartialTree
\* The value a render method returns or a local holds: an ODFPartialTree with
\* its list _elements, or Python's None (what a method that only passes
\* returns).
Tree(elems) == [isNone |-> FALSE, elems |-> elems]
NoneValue == [isNone |-> TRUE, elems |-> <<>>]

Outcome(h, tree, e) == [heap |-> h, tree |-> tree, err |-> e]

\* The first frame below the page whose presentation class is outline, 0 when
\* there is none.
FirstOutline(h, pg) ==
    LET frames == SelectSeq(Descendants(h, pg),
                            LAMBDA n : h[n].kind = "TextFrame" /\ h[n].pclass = "outline")
    IN  IF frames = <<>> THEN 0 ELSE frames[1]

\* A redirect that never looks for an existing outline frame and always makes
\* a new one.
RedirectAlwaysNewFrame(h, self, elems) ==
    LET pg  == self[Len(self)]
        w   == wrap_spans(h, elems)
        fid == NewId(w.heap)
        h1  == Append(w.heap, Node("TextFrame", "pr7", "outline", <<>>))
        h2  == AppendAll(h1, fid, w.res)
    IN  Outcome(AppendChild(h2, pg, fid), Tree(self), "none")

\* The branch of _add_child_elems taken when the last element is a page and
\* the first new element is not: the new elements go into the page.
Redirect(h, self, elems) ==
    LET pg == self[Len(self)]
        w  == wrap_spans(h, elems)
        o  == FirstOutline(w.heap, pg)
    IN  IF o # 0
        THEN Outcome(AppendAll(w.heap, o, w.res), Tree(self), "none")
        ELSE LET fid == NewId(w.heap)
                 h1  == Append(w.heap, Node("TextFrame", "pr7", "outline", <<>>))
                 h2  == AppendAll(h1, fid, w.res)
             IN  Outcome(AppendChild(h2, pg, fid), Tree(self), "none")

\* ODFPartialTree._add_child_elems(elems) on the list self.  elems[0] is read
\* only when the list is not empty and ends with a page; on an empty elems
\* that read raises IndexError.
add_child_elems(h, self, elems) ==
    IF self # <<>> /\ h[self[Len(self)]].kind = "Slide"
    THEN IF elems = <<>>
         THEN Outcome(h, Tree(self), "IndexError")
         ELSE IF h[elems[1]].kind # "Slide"
              THEN Redirect(h, self, elems)
              ELSE Outcome(h, Tree(self \o elems), "none")
    ELSE Outcome(h, Tree(self \o elems), "none")

\* ODFPartialTree._add_text(text): a new span holding the text, appended to
\* the list.
add_text(h, self, text) ==
    Outcome(Append(h, Node("Span", "", "", text)), Tree(Append(self, NewId(h))), "none")

\* The body shared by __add__ and __iadd__ once the list to extend is chosen
\* (a copy of self._elements for +, self._elements itself for +=).  other is
\* a tree or None; None has no _elements, which raises AttributeError.
Merge(h, self, other) ==
    IF other.isNone
    THEN Outcome(h, Tree(self), "AttributeError")
    ELSE add_child_elems(h, self, other.elems)

\* ---------------------------------------------------------- ODFRenderer
\* ODFRenderer.placeholder()
placeholder == Tree(<<>>)

\* e.get_formatted_text(): the text of a node and of the nodes below it.
RECURSIVE FormattedText(_, _)
RECURSIVE FormattedTextOfAll(_, _)
FormattedText(h, n) == h[n].text \o FormattedTextOfAll(h, h[n].kids)
FormattedTextOfAll(h, ns) ==
    IF ns = <<>> THEN <<>>
    ELSE FormattedText(h, Head(ns)) \o FormattedTextOfAll(h, Tail(ns))

\* The page and its title frame that header builds for levels 1 and 2.
\* A page's style is its master page and its pclass its page layout.
TitlePage(h, elems, master, layout, frameStyle) ==
    LET pg  == NewId(h)
        h1  == Append(h, Node("Slide", master, layout, FormattedTextOfAll(h, elems)))
        w   == wrap_spans(h1, elems)
        fid == NewId(w.heap)
        h2  == Append(w.heap, Node("TextFrame", frameStyle, "title", <<>>))
        h3  == AppendAll(h2, fid, w.res)
    IN  Outcome(AppendChild(h3, pg, fid), Tree(<<pg>>), "none")

\* ODFRenderer.header(text, level)
header(h, text, level) ==
    IF level = 1
    THEN IF text.isNone THEN Outcome(h, NoneValue, "AttributeError")
         ELSE TitlePage(h, text.elems, "Break", "AL3T19", "pr9")
    ELSE IF level = 2
    THEN IF text.isNone THEN Outcome(h, NoneValue, "AttributeError")
         ELSE TitlePage(h, text.elems, "Logo_20_Content", "AL3T1", "pr6")
    ELSE Outcome(h, NoneValue, "RuntimeError")

\* The style each inline rule sets on its span.
SpanStyle(rule) ==
    CASE rule = "paragraph" -> ""
      [] rule = "emphasis" -> "TextEmphasisStyle"
      [] rule = "double_emphasis" -> "TextDoubleEmphasisStyle"
      [] rule = "codespan" -> "TextCodeStyle"

\* ODFRenderer.paragraph, emphasis, double_emphasis and codespan on a tree:
\* one new span that takes the tree's elements as children.
span_rule(h, rule, text) ==
    IF text.isNone THEN Outcome(h, NoneValue, "AttributeError")
    ELSE LET sp == NewId(h)
             h1 == Append(h, Node("Span", SpanStyle(rule), "", <<>>))
         IN  Outcome(AppendAll(h1, sp, text.elems), Tree(<<sp>>), "none")

\* ODFRenderer.list_item(text)
list_item(h, text) ==
    IF text.isNone THEN Outcome(h, NoneValue, "AttributeError")
    ELSE LET item == NewId(h)
             h1   == Append(h, Node("ListItem", "", "", <<>>))
             w    == wrap_spans(h1, text.elems)
         IN  Outcome(AppendAll(w.heap, item, w.res), Tree(<<item>>), "none")

\* ODFRenderer.linebreak()
linebreak(h) ==
    Outcome(Append(h, Node("LineBreak", "", "", <<>>)), Tree(<<NewId(h)>>), "none")

\* The rules whose body is pass: each returns None.
UnsupportedRules == {"table", "table_row", "table_cell", "image", "tag", "strikethrough"}
unsupported(rule) == NoneValue

\* ------------------------------------------- the parser as a client
\* The parser renders bottom-up.  It keeps one accumulator per construct whose
\* children it is rendering (stack, the document's accumulator first), each
\* begun as placeholder(); a render method turns the finished accumulator on
\* top into a value (held), and the parser concatenates that value onto the
\* accumulator below with += or +.  Rendering allocates at most MaxNodes nodes
\* and nests at most MaxDepth accumulators.

Nothing == [has |-> FALSE, val |-> Tree(<<>>)]
Held(v) == [has |-> TRUE, val |-> v]

Top == stack[Len(stack)]
Pop(s) == SubSeq(s, 1, Len(s) - 1)
SetTop(s, t) == [s EXCEPT ![Len(s)] = t]

NoOp == [op |-> "init", rule |-> "", level |-> 0, arg |-> ""]
Op(op, rule, level, arg) == [op |-> op, rule |-> rule, level |-> level, arg |-> arg]

NoChain == [on |-> FALSE, at |-> 0, slide |-> 0, merged |-> <<>>, k |-> 0]

IsPage(h, t) == ~t.isNone /\ Len(t.elems) = 1 /\ h[t.elems[1]].kind = "Slide"

\* A fragment of content: a tree that is not empty and holds no page.
IsContent(h, t) ==
    /\ ~t.isNone
    /\ t.elems # <<>>
    /\ \A n \in Reach(h, t.elems) : h[n].kind # "Slide"

\* What kind of value a concatenation was given.
ArgKind(h, v) ==
    IF v.isNone THEN "none"
    ELSE IF v.elems = <<>> THEN "empty"
    ELSE IF IsContent(h, v) THEN "content"
    ELSE "pages"

\* The bookkeeping of the run "a heading's tree, then content fragments
\* concatenated onto it one after another": which accumulator holds the tree,
\* the heading's page, and the elements concatenated so far.  The run begins
\* when a heading's value becomes an accumulator's whole content; any other
\* call that changes that accumulator or a node of the page ends it.
ChainNext(l, h2, s2, e2) ==
    IF e2 # "none" THEN chain
    ELSE IF /\ l.op \in {"add", "iadd"} /\ last.op = "header"
            /\ Top.elems = <<>> /\ IsPage(heap, held.val)
    THEN [on |-> TRUE, at |-> Len(stack), slide |-> held.val.elems[1],
          merged |-> <<>>, k |-> 0]
    ELSE IF ~chain.on THEN chain
    ELSE IF /\ l.op \in {"add", "iadd"} /\ chain.at = Len(stack)
            /\ IsContent(heap, held.val)
    THEN [chain EXCEPT !.merged = @ \o held.val.elems, !.k = @ + 1]
    ELSE IF \/ Len(s2) < chain.at
            \/ s2[chain.at] # stack[chain.at]
            \/ \E n \in Reach(heap, <<chain.slide>>) : h2[n] # heap[n]
    THEN NoChain
    ELSE chain

\* What a call leaves behind; on an exception (e # "none") nothing but the
\* error changes and the run is over.
Finish(h2, s2, v2, e2, l) ==
    /\ Len(h2) <= MaxNodes
    /\ heap' = h2
    /\ err' = e2
    /\ stack' = IF e2 = "none" THEN s2 ELSE stack
    /\ held' = IF e2 = "none" THEN v2 ELSE held
    /\ last' = l
    /\ chain' = ChainNext(l, h2, s2, e2)
    /\ UNCHANGED <<pc, input, next, doc, page, anchor, index, saved, code>>

Idle == pc = "client" /\ err = "none" /\ ~held.has
Returned == pc = "client" /\ err = "none" /\ held.has

Levels == 1..3
SpanRules == {"paragraph"}

\* body = renderer.placeholder(): the children of a construct begin.
CallPlaceholder ==
    /\ Idle
    /\ Len(stack) < MaxDepth
    /\ Finish(heap, Append(stack, placeholder), Nothing, "none", Op("placeholder", "", 0, ""))

\* A render method r that takes the finished accumulator: the value it
\* returns is held, the accumulator is gone.
Return(o, l) ==
    /\ Idle
    /\ Len(stack) >= 2
    /\ Finish(o.heap, Pop(stack), Held(o.tree), o.err, l)

\* What the inline lexer accumulates: spans and line breaks, never a block.
IsInline(h, t) ==
    /\ ~t.isNone
    /\ \A n \in Reach(h, t.elems) : h[n].kind \in {"Span", "LineBreak"}

\* renderer.header(self.inline(text), level): a heading's text is inline.
CallHeader(level) ==
    /\ IsInline(heap, Top)
    /\ Return(header(heap, Top, level), Op("header", "", level, ""))

\* renderer.paragraph(self.inline(text))
CallSpanRule(rule) ==
    /\ IsInline(heap, Top)
    /\ Return(span_rule(heap, rule, Top), Op("span", rule, 0, ""))

\* renderer.list_item(body): the body holds the blocks of the item.
CallListItem == Return(list_item(heap, Top), Op("list_item", "", 0, ""))

\* The accumulator itself is the value: the inline lexer's output, which
\* tok_text returns as it is.
ReturnBody ==
    /\ IsInline(heap, Top)
    /\ Return(Outcome(heap, Top, "none"), Op("body", "", 0, ""))

\* renderer.linebreak()
CallLinebreak ==
    /\ Idle
    /\ LET o == linebreak(heap)
       IN  Finish(o.heap, stack, Held(o.tree), o.err, Op("linebreak", "", 0, ""))

\* renderer.table(...), renderer.image(...), ...
CallUnsupported(rule) ==
    /\ Idle
    /\ Finish(heap, stack, Held(unsupported(rule)), "none", Op("unsupported", "", 0, ""))

\* ODFPartialTree.__add__: out = out + value.  The list is copied (line 113),
\* the nodes it refers to are not.
Add ==
    /\ Returned
    /\ LET o == Merge(heap, Top.elems, held.val)
       IN  Finish(o.heap, SetTop(stack, o.tree), Nothing, o.err,
                  Op("add", "", 0, ArgKind(heap, held.val)))

\* ODFPartialTree.__iadd__: out += value
IAdd ==
    /\ Returned
    /\ LET o == Merge(heap, Top.elems, held.val)
       IN  Finish(o.heap, SetTop(stack, o.tree), Nothing, o.err,
                  Op("iadd", "", 0, ArgKind(heap, held.val)))

\* The variables of the main script, unused while only the renderer runs.
ScriptIdle ==
    /\ input = <<>>
    /\ next = 1
    /\ doc = <<>>
    /\ page = 0
    /\ anchor = 0
    /\ index = 0
    /\ saved = FALSE

\* The client's bookkeeping before its first call.
ClientIdle ==
    /\ held = Nothing
    /\ err = "none"
    /\ last = NoOp
    /\ chain = NoChain

InitClient ==
    /\ pc = "client"
    /\ heap = <<>>
    /\ stack = <<placeholder>>
    /\ code = <<>>
    /\ ClientIdle
    /\ ScriptIdle

NextClient ==
    \/ CallPlaceholder
    \/ \E level \in Levels : CallHeader(level)
    \/ \E rule \in SpanRules : CallSpanRule(rule)
    \/ CallListItem
    \/ ReturnBody
    \/ CallLinebreak
    \/ \E rule \in UnsupportedRules : CallUnsupported(rule)
    \/ Add
    \/ IAdd

SpecClient == InitClient /\ [][NextClient]_vars

\* ---------------------------------------- one heading, then its content
\* The client rendering a document that is one heading of level 1 or 2
\* followed by content: the heading is the first value concatenated onto the
\* document's accumulator, and every later value is rendered from supported
\* constructs, nested in at most MaxFragmentDepth accumulators.
HeadingComesFirst == Len(stack) = 2 /\ stack[1].elems = <<>>
ContentFollows == Len(stack) = 1 => (chain.on \/ last.op = "header")

NextSlide ==
    \/ Len(stack) < MaxFragmentDepth /\ CallPlaceholder
    \/ \E level \in {1, 2} : HeadingComesFirst /\ CallHeader(level)
    \/ \E rule \in SpanRules : CallSpanRule(rule)
    \/ CallListItem
    \/ ReturnBody
    \/ CallLinebreak
    \/ ContentFollows /\ Add
    \/ ContentFollows /\ IAdd

SpecSlide == InitClient /\ [][NextSlide]_vars

\* ------------------------------------------------- wrap_spans on its own
\* Every list of at most MaxLen fresh nodes is handed to wrap_spans, and what
\* it returns is handed to it again.
WrapKinds == {"Span", "LineBreak", "Paragraph", "Slide"}

RECURSIVE SeqsUpTo(_, _)
SeqsUpTo(S, n) ==
    IF n = 0 THEN {<<>>}
    ELSE LET shorter == SeqsUpTo(S, n - 1)
         IN  shorter \cup {Append(q, x) : q \in {r \in shorter : Len(r) = n - 1}, x \in S}

InitWrap ==
    /\ pc = "wrap"
    /\ \E kinds \in SeqsUpTo(WrapKinds, MaxLen) :
          /\ heap = [i \in 1..Len(kinds) |-> Node(kinds[i], "", "", <<>>)]
          /\ stack = <<Tree([i \in 1..Len(kinds) |-> i])>>
    /\ code = <<>>
    /\ ClientIdle
    /\ ScriptIdle

\* res = wrap_spans(elements)
CallWrapSpans ==
    /\ pc = "wrap"
    /\ Len(stack) < 3
    /\ LET w == wrap_spans(heap, Top.elems)
       IN  /\ heap' = w.heap
           /\ stack' = Append(stack, Tree(w.res))
    /\ UNCHANGED <<held, err, last, chain, pc, input, next, doc, page, anchor, index, saved, code>>

SpecWrap == InitWrap /\ [][CallWrapSpans]_vars

\* ------------------------------------------------- block_code on its own
\* str.splitlines() on a string of the characters "a" and "\n": a line ends
\* at each "\n", and the text after the last "\n" is a line unless it is empty.
RECURSIVE SplitLoop(_, _, _, _)
SplitLoop(s, i, cur, lines) ==
    IF i > Len(s)
    THEN IF cur # <<>> THEN Append(lines, cur) ELSE lines
    ELSE IF s[i] = "\n"
         THEN SplitLoop(s, i + 1, <<>>, Append(lines, cur))
         ELSE SplitLoop(s, i + 1, Append(cur, s[i]), lines)

splitlines(s) == SplitLoop(s, 1, <<>>, <<>>)

\* The loop of block_code: a span with the line's text, then a line break,
\* for every line.
RECURSIVE CodeLoop(_, _, _)
CodeLoop(h, para, lines) ==
    IF lines = <<>> THEN h
    ELSE LET span == NewId(h)
             h1   == AppendChild(Append(h, Node("Span", "", "", Head(lines))), para, span)
             br   == NewId(h1)
             h2   == AppendChild(Append(h1, Node("LineBreak", "", "", <<>>)), para, br)
         IN  CodeLoop(h2, para, Tail(lines))

\* ODFRenderer.block_code(code)
block_code(h, c) ==
    LET para == NewId(h)
        h1   == Append(h, Node("Paragraph", "ParagraphCodeStyle", "", <<>>))
    IN  Outcome(CodeLoop(h1, para, splitlines(c)), Tree(<<para>>), "none")

CodeChars == {"a", "\n"}

InitCode ==
    /\ pc = "code"
    /\ heap = <<>>
    /\ stack = <<placeholder>>
    /\ code \in SeqsUpTo(CodeChars, MaxCodeLen)
    /\ ClientIdle
    /\ ScriptIdle

\* value = renderer.block_code(code)
CallBlockCode ==
    /\ pc = "code"
    /\ LET o == block_code(heap, code)
       IN  /\ heap' = o.heap
           /\ held' = Held(o.tree)
    /\ pc' = "coded"
    /\ last' = Op("block_code", "", 0, "")
    /\ UNCHANGED <<stack, err, chain, input, next, doc, page, anchor, index, saved, code>>

SpecCode == InitCode /\ [][CallBlockCode]_vars

\* --------------------------------------------------------- main script
\* The input is a document of at most MaxTokens top-level blocks; the template
\* holds at most MaxSlides slides, template slide i being -i in doc (the
\* children of the document body); the anchor is in -MaxAnchor..MaxAnchor.
Tokens == {"h1", "h2", "h3", "para", "table"}

Template(n) == [i \in 1..n |-> -i]

\* The template slides among the body's children, in order.
Existing(d) == SelectSeq(d, LAMBDA x : x < 0)

Init ==
    /\ pc = "resolve"
    /\ heap = <<>>
    /\ stack = <<placeholder>>
    /\ code = <<>>
    /\ ClientIdle
    /\ input \in SeqsUpTo(Tokens, MaxTokens)
    /\ next = 1
    /\ \E n \in 0..MaxSlides : doc = Template(n)
    /\ anchor \in (-MaxAnchor)..MaxAnchor
    /\ page = anchor
    /\ index = 0
    /\ saved = FALSE

\* if args.page < 0: args.page = len(doc_elems.get_children()) + args.page
ResolveAnchor ==
    /\ pc = "resolve"
    /\ page' = IF page < 0 THEN Len(doc) + page ELSE page
    /\ pc' = "render"
    /\ UNCHANGED <<heap, stack, held, err, last, chain, input, next, doc, anchor, index, saved, code>>

\* The inline lexer's output for a block's text: placeholder() += "a".
InlineText(h) == add_text(h, placeholder.elems, <<"a">>)

\* The value the renderer returns for one top-level block.
RenderBlock(h, tok) ==
    LET text == InlineText(h)
    IN  CASE tok = "h1" -> header(text.heap, text.tree, 1)
          [] tok = "h2" -> header(text.heap, text.tree, 2)
          [] tok = "h3" -> header(text.heap, text.tree, 3)
          [] tok = "para" -> span_rule(text.heap, "paragraph", text.tree)
          [] tok = "table" -> Outcome(h, unsupported("table"), "none")

\* One round of the loop of mkdown.render: out += the next block's value.
\* An exception ends the script.
RenderToken ==
    /\ pc = "render"
    /\ next <= Len(input)
    /\ LET o == RenderBlock(heap, input[next])
           m == IF o.err = "none" THEN Merge(o.heap, Top.elems, o.tree) ELSE o
       IN  /\ heap' = m.heap
           /\ err' = m.err
           /\ stack' = IF m.err = "none" THEN SetTop(stack, m.tree) ELSE stack
           /\ pc' = IF m.err = "none" THEN "render" ELSE "failed"
    /\ next' = next + 1
    /\ UNCHANGED <<held, last, chain, input, doc, page, anchor, index, saved, code>>

\* mkdown.render returns: the insert loop begins.
FinishRender ==
    /\ pc = "render"
    /\ next > Len(input)
    /\ pc' = "insert"
    /\ UNCHANGED <<heap, stack, held, err, last, chain, input, next, doc, page, anchor, index, saved, code>>

\* element.insert(child, position=pos) as lxml does it: before the child at
\* pos (counted from the end when pos < 0), at the end when there is no such
\* child.
InsertAt(d, pos, x) ==
    LET at == IF pos >= 0 THEN pos ELSE Len(d) + pos
    IN  IF at >= 0 /\ at < Len(d)
        THEN SubSeq(d, 1, at) \o <<x>> \o SubSeq(d, at + 1, Len(d))
        ELSE Append(d, x)

\* An insert loop that forgets to advance the position.
InsertPositionFixed(pg, i) == pg

\* position=args.page + index
InsertPosition(pg, i) == pg + i

\* for index, page in enumerate(rendered): doc_elems.insert(page, position)
InsertStep ==
    /\ pc = "insert"
    /\ index < Len(Top.elems)
    /\ doc' = InsertAt(doc, InsertPosition(page, index), Top.elems[index + 1])
    /\ index' = index + 1
    /\ UNCHANGED <<heap, stack, held, err, last, chain, pc, input, next, page, anchor, saved, code>>

\* presentation.save(target=odf_out)
Save ==
    /\ pc = "insert"
    /\ index = Len(Top.elems)
    /\ saved' = TRUE
    /\ pc' = "done"
    /\ UNCHANGED <<heap, stack, held, err, last, chain, input, next, doc, page, anchor, index, code>>

Next ==
    \/ ResolveAnchor
    \/ RenderToken
    \/ FinishRender
    \/ InsertStep
    \/ Save

Spec == Init /\ [][Next]_vars

\* ================================================================ claims

Merges == {"add", "iadd"}

FramesOf(h, pg, class) ==
    SelectSeq(h[pg].kids, LAMBDA n : h[n].kind = "TextFrame" /\ h[n].pclass = class)

\* A list of nodes with every paragraph the span wrapper made (a paragraph
\* without a style) replaced by the spans it holds.
RECURSIVE Unwrap(_, _)
Unwrap(h, ns) ==
    IF ns = <<>> THEN <<>>
    ELSE (IF h[Head(ns)].kind = "Paragraph" /\ h[Head(ns)].style = ""
          THEN h[Head(ns)].kids ELSE <<Head(ns)>>) \o Unwrap(h, Tail(ns))

\* C1: from a heading's tree (one page holding only its title frame), after
\* k >= 1 content fragments were concatenated onto it with + or +=, the tree
\* is still that one page, and the page holds one title frame and one outline
\* frame whose content is the fragments' elements in the order concatenated.
C1_OutlineHoldsFragmentsInOrder ==
    chain.on =>
        LET pg == chain.slide
        IN  /\ stack[chain.at] = Tree(<<pg>>)
            /\ Len(FramesOf(heap, pg, "title")) = 1
            /\ IF chain.k = 0
               THEN Len(heap[pg].kids) = 1
               ELSE /\ Len(heap[pg].kids) = 2
                    /\ Len(FramesOf(heap, pg, "outline")) = 1
                    /\ Unwrap(heap, heap[FramesOf(heap, pg, "outline")[1]].kids) = chain.merged

\* Two fragments were concatenated onto a heading's tree, the first of spans
\* (which the span wrapper wraps), one of them with +.
C1_Witness ==
    /\ chain.on
    /\ chain.k = 2
    /\ heap[chain.merged[1]].kind = "Span"
    /\ last.op = "add"
    /\ err = "none"

NoSlideInsideSlide(h) ==
    \A n \in DOMAIN h :
        h[n].kind = "Slide" => \A d \in Range(Descendants(h, n)) : h[d].kind # "Slide"

\* C2: concatenating a heading's page onto a tree makes the page a new last
\* top-level node of the tree, and no page ever ends up below another page.
C2_HeadingAlwaysOpensNewSlide ==
    [][/\ (/\ last'.op \in Merges /\ err' = "none" /\ last.op = "header"
           /\ Top.elems # <<>>)
          => stack'[Len(stack)].elems = Top.elems \o held.val.elems
       /\ NoSlideInsideSlide(heap')]_vars

\* C6: concatenating an empty fragment raises nothing and changes neither the
\* tree nor any node.
C6_EmptyFragmentIsNoOp ==
    [][(last'.op \in Merges /\ last'.arg = "empty")
          => /\ err' = "none"
             /\ stack'[Len(stack)] = Top
             /\ heap' = heap]_vars

\* C7: each unsupported rule yields empty content, and concatenating what it
\* returns raises nothing and changes neither the tree nor any node.
C7_UnsupportedRendersEmpty ==
    [][(last'.op \in Merges /\ last.op = "unsupported")
          => /\ \A rule \in UnsupportedRules : unsupported(rule) = placeholder
             /\ err' = "none"
             /\ stack'[Len(stack)] = Top
             /\ heap' = heap]_vars

\* C10: r = t + f changes no node reachable from t.
C10_AddLeavesLeftOperandUnchanged ==
    [][(last'.op = "add" /\ err' = "none")
          => \A n \in Reach(heap, Top.elems) : heap'[n] = heap[n]]_vars

\* A node that wrap_spans made: it came after the Len(x) nodes of the input.
IsNew(x, n) == n > Len(x)

RECURSIVE Flatten(_, _, _)
Flatten(h, x, ys) ==
    IF ys = <<>> THEN <<>>
    ELSE (IF IsNew(x, Head(ys)) THEN h[Head(ys)].kids ELSE <<Head(ys)>>) \o Flatten(h, x, Tail(ys))

\* C9: wrap_spans(x) is x with every maximal run of spans replaced by one new
\* paragraph holding the run in order, every other node kept in place and
\* unchanged; the result has no top-level span, and wrapping it again returns
\* the same list and makes no node.
C9_WrapSpansGroupsRuns ==
    Len(stack) >= 2 =>
        LET x == stack[1].elems
            y == stack[2].elems
        IN  /\ \A i \in DOMAIN y : heap[y[i]].kind # "Span"
            /\ Flatten(heap, x, y) = x
            /\ \A i \in DOMAIN y : IsNew(x, y[i]) =>
                  /\ heap[y[i]].kind = "Paragraph"
                  /\ heap[y[i]].kids # <<>>
                  /\ \A k \in Range(heap[y[i]].kids) : heap[k].kind = "Span"
            /\ \A i \in 1..(Len(y) - 1) : ~(IsNew(x, y[i]) /\ IsNew(x, y[i + 1]))
            /\ \A i \in DOMAIN x : heap[x[i]] = Node(heap[x[i]].kind, "", "", <<>>)
            /\ Len(heap) = Len(x) + Cardinality({i \in DOMAIN y : IsNew(x, y[i])})
            /\ Len(stack) = 3 => stack[3] = stack[2]

\* wrap_spans ran twice on an input with two runs of spans, one of them of two
\* spans, the last run ending the input.
C9_Witness ==
    /\ Len(stack) = 3
    /\ Cardinality({i \in DOMAIN stack[2].elems : IsNew(stack[1].elems, stack[2].elems[i])}) = 2
    /\ \E i \in DOMAIN stack[2].elems : Len(heap[stack[2].elems[i]].kids) = 2
    /\ heap[Len(stack[1].elems)].kind = "Span"

\* C8: a code block of n >= 1 lines is one code-paragraph whose children are
\* the n lines' spans, each styled code-text, with one line break between
\* consecutive spans: 2n - 1 children.
C8_CodeBlockSpansAndBreaks ==
    (pc = "coded" /\ splitlines(code) # <<>>) =>
        LET lines == splitlines(code)
            para  == held.val.elems[1]
            kids  == heap[para].kids
        IN  /\ Len(held.val.elems) = 1
            /\ heap[para].kind = "Paragraph"
            /\ heap[para].style = "ParagraphCodeStyle"
            /\ Len(kids) = 2 * Len(lines) - 1
            /\ \A i \in DOMAIN lines :
                  /\ heap[kids[2 * i - 1]].kind = "Span"
                  /\ heap[kids[2 * i - 1]].text = lines[i]
                  /\ heap[kids[2 * i - 1]].style = "TextCodeStyle"
            /\ \A i \in 1..(Len(lines) - 1) : heap[kids[2 * i]].kind = "LineBreak"

\* The rendered top-level nodes and the number of template slides.
Rendered == stack[1].elems
NSlides == Len(Existing(doc))
Effective == IF anchor >= 0 THEN anchor ELSE NSlides + anchor

\* C3: with anchor -1 the first rendered node is put at index N, behind all N
\* template slides.
C3_DefaultAnchorAppendsAtEnd ==
    (anchor = -1 /\ index >= 1) => doc[NSlides + 1] = Rendered[1]

\* The rendered nodes lie together in doc, in order, from 0-based index e on,
\* and the template slides keep their order.
PlacedAt(e) ==
    /\ \A i \in DOMAIN Rendered :
          /\ e + i \in DOMAIN doc
          /\ doc[e + i] = Rendered[i]
    /\ Existing(doc) = Template(NSlides)

C5_Level3FailsBeforeAnyOutput ==
    (\E i \in DOMAIN input : input[i] = "h3") =>
        /\ pc \notin {"resolve", "render"} => (pc = "failed" /\ err = "RuntimeError")
        /\ index = 0
        /\ doc = Template(Len(doc))
        /\ ~saved

====
